---------------------------- MODULE Spec2Model ----------------------------
(***************************************************************************)
(* A model of boxwrap.py, the GIMP plug-in that builds a six-face template *)
(* image for a board game box and, from it, the two printable wrap sheets. *)
(*                                                                         *)
(* Lengths in millimetres are exact rationals [num, den]; lengths in       *)
(* pixels are integers.  Python sequences are indexed from 0, TLA+ ones    *)
(* from 1: At(s, i) reads s[i] the way the source does.                    *)
(***************************************************************************)
EXTENDS Integers, Sequences, FiniteSets, TLC

VARIABLES
    pc,             \* "idle", a position inside create_wraps, or "returned"
    src_image,      \* the template image open in GIMP (NoImage before create_template)
    locals,         \* <<the local variables of the running or last call>>
    sheet,          \* the wrap sheet draw() is working on: "top", "bottom", "none"
    ip,             \* index of the next instruction of draw()
    dst,            \* the two destination images of the running or last create_wraps
    context_depth,  \* depth of GIMP's context stack
    messages,       \* what gimp.message reported during the running or last call
    calls,          \* backend calls of the running or last call, in order
    mm_in,          \* unit converter: the millimetre value being converted
    px_out,         \* unit converter: <<mm_to_px(mm_in)>>, <<>> before the call
    mm_out,         \* unit converter: <<px_to_mm(px_out)>>, <<>> before the call
    prev            \* unit converter: <<the previous input and its pixels>>, or <<>>

vars == <<pc, src_image, locals, sheet, ip, dst, context_depth, messages,
          calls, mm_in, px_out, mm_out, prev>>

plugin_vars == <<pc, src_image, locals, sheet, ip, dst, context_depth,
                 messages, calls>>

unit_vars == <<mm_in, px_out, mm_out, prev>>

At(s, i) == s[i + 1]

Last(s) == s[Len(s)]

Abs(a) == IF a < 0 THEN -a ELSE a

(***************************************************************************)
(* Module constants                                                        *)
(***************************************************************************)
DPI == 300

TOP_LEFT == 1
TOP_RIGHT == 2
BOTTOM_LEFT == 3
BOTTOM_RIGHT == 4
CENTER == 5

LEFT == 1
RIGHT == 2
UP == 3
DOWN == 4

Corner == {TOP_LEFT, TOP_RIGHT, BOTTOM_LEFT, BOTTOM_RIGHT, CENTER}

Direction == {LEFT, RIGHT, UP, DOWN}

(***************************************************************************)
(* Unit conversion                                                         *)
(***************************************************************************)
\* A millimetre value num/den.
Mm(num, den) == [num |-> num, den |-> den]

\* p/q = r/s and p/q <= r/s on rationals with positive denominators.
RatEq(a, b) == a.num * b.den = b.num * a.den

RatLe(a, b) == a.num * b.den <= b.num * a.den

\* round() of Python 2 on num/den (den > 0): to the nearest integer, a tie
\* away from zero.
RoundHalfAway(num, den) ==
    IF num >= 0 THEN (2 * num + den) \div (2 * den)
    ELSE -((2 * (-num) + den) \div (2 * den))

\* int(mm / 25.4 * DPI) without round(): the fraction is cut off.
mm_to_px_truncating(mm) == (mm.num * 10 * DPI) \div (254 * mm.den)

\* int(round(mm / 25.4 * DPI)), with 25.4 = 254/10.
mm_to_px(mm) == RoundHalfAway(mm.num * 10 * DPI, 254 * mm.den)

\* (px * 25) / DPI: the decimal of 25.4 lost.
px_to_mm_inch25(px) == Mm(px * 250, 10 * DPI)

\* (px * 25.4) / DPI, an unreduced rational.
px_to_mm(px) == Mm(px * 254, 10 * DPI)

\* "%d" % x for a non-negative x: the integer part.
FormatD(mm) == mm.num \div mm.den

(***************************************************************************)
(* Coordinate grids                                                        *)
(***************************************************************************)
\* template_coordinates with the height added twice to y3.
template_coordinates_tall(box_width, box_height, box_depth) ==
    LET x0 == 0
        x1 == x0 + box_depth
        x2 == x1 + box_width
        x3 == x2 + box_depth
        x4 == x3 + box_width
        y0 == 0
        y1 == y0 + box_depth
        y2 == y1 + box_height \div 2
        y3 == y2 + box_height
        y4 == y3 + box_depth
    IN  << <<x0, x1, x2, x3, x4>>, <<y0, y1, y2, y3, y4>> >>

template_coordinates(box_width, box_height, box_depth) ==
    LET x0 == 0
        x1 == x0 + box_depth
        x2 == x1 + box_width
        x3 == x2 + box_depth
        x4 == x3 + box_width
        y0 == 0
        y1 == y0 + box_depth
        y2 == y1 + box_height \div 2
        y3 == y1 + box_height
        y4 == y3 + box_depth
    IN  << <<x0, x1, x2, x3, x4>>, <<y0, y1, y2, y3, y4>> >>

\* wrap_coordinates with box_width used on the y axis too.
wrap_coordinates_shared_width(box_width, box_height, box_depth, thickness, inside_size, flap_size, crop_mark_size, crop_mark_distance) ==
    LET half_box_height == box_height \div 2
        x1 == crop_mark_size + crop_mark_distance
        x2 == x1 + inside_size
        x3 == x2 + thickness
        x5 == x3 + half_box_height
        x4 == x5 - flap_size
        x6 == x5 + box_width
        x7 == x6 + flap_size
        x8 == x6 + half_box_height
        x9 == x8 + thickness
        x10 == x9 + inside_size
        x11 == x10 + crop_mark_distance + crop_mark_size
        y1 == crop_mark_size + crop_mark_distance
        y2 == y1 + inside_size
        y3 == y2 + thickness
        y4 == y3 + half_box_height
        y5 == y4 + flap_size
        y7 == y4 + box_width
        y6 == y7 - flap_size
        y8 == y7 + half_box_height
        y9 == y8 + thickness
        y10 == y9 + inside_size
        y11 == y10 + crop_mark_distance + crop_mark_size
    IN  << <<0, x1, x2, x3, x4, x5, x6, x7, x8, x9, x10, x11>>,
           <<0, y1, y2, y3, y4, y5, y6, y7, y8, y9, y10, y11>> >>

\* wrap_coordinates with the whole box height between the material and
\* the face, where the code takes half of it.
wrap_coordinates_full_height(box_width, box_height, box_depth, thickness, inside_size, flap_size, crop_mark_size, crop_mark_distance) ==
    LET x1 == crop_mark_size + crop_mark_distance
        x3 == x1 + inside_size + thickness
        x5 == x3 + box_height
        x6 == x5 + box_width
        x8 == x6 + box_height
        x10 == x8 + thickness + inside_size
        y4 == x3 + box_height
        y7 == y4 + box_depth
        y8 == y7 + box_height
        y10 == y8 + thickness + inside_size
    IN  << <<0, x1, x1 + inside_size, x3, x5 - flap_size, x5, x6,
             x6 + flap_size, x8, x8 + thickness, x10,
             x10 + crop_mark_distance + crop_mark_size>>,
           <<0, x1, x1 + inside_size, x3, y4, y4 + flap_size,
             y7 - flap_size, y7, y8, y8 + thickness, y10,
             y10 + crop_mark_distance + crop_mark_size>> >>

wrap_coordinates(box_width, box_height, box_depth, thickness, inside_size, flap_size, crop_mark_size, crop_mark_distance) ==
    LET half_box_height == box_height \div 2
        x1 == crop_mark_size + crop_mark_distance
        x2 == x1 + inside_size
        x3 == x2 + thickness
        x5 == x3 + half_box_height
        x4 == x5 - flap_size
        x6 == x5 + box_width
        x7 == x6 + flap_size
        x8 == x6 + half_box_height
        x9 == x8 + thickness
        x10 == x9 + inside_size
        x11 == x10 + crop_mark_distance + crop_mark_size
        y1 == crop_mark_size + crop_mark_distance
        y2 == y1 + inside_size
        y3 == y2 + thickness
        y4 == y3 + half_box_height
        y5 == y4 + flap_size
        y7 == y4 + box_depth
        y6 == y7 - flap_size
        y8 == y7 + half_box_height
        y9 == y8 + thickness
        y10 == y9 + inside_size
        y11 == y10 + crop_mark_distance + crop_mark_size
    IN  << <<0, x1, x2, x3, x4, x5, x6, x7, x8, x9, x10, x11>>,
           <<0, y1, y2, y3, y4, y5, y6, y7, y8, y9, y10, y11>> >>

StrictlyIncreasing(s) == \A i \in 1..(Len(s) - 1) : s[i] < s[i + 1]


(***************************************************************************)
(* Backend objects                                                         *)
(***************************************************************************)
Rect(x, y, w, h) == [x |-> x, y |-> y, w |-> w, h |-> h]

\* Two rectangles share a pixel.
Overlap(a, b) ==
    /\ a.w > 0 /\ a.h > 0 /\ b.w > 0 /\ b.h > 0
    /\ a.x < b.x + b.w /\ b.x < a.x + a.w
    /\ a.y < b.y + b.h /\ b.y < a.y + a.h

\* Every pixel of inner is a pixel of outer.
Contains(outer, inner) ==
    /\ outer.x <= inner.x /\ inner.x + inner.w <= outer.x + outer.w
    /\ outer.y <= inner.y /\ inner.y + inner.h <= outer.y + outer.h

Message(text, values) == [text |-> text, values |-> values]

Call(name, image) == <<name, image>>

\* One entry of an image's drawing history: a floating selection anchored
\* into the layer ("anchor") or a filled rectangle ("fill").
Drawn(kind, phase, src_id, src, rect, corner, angle, translated) ==
    [kind |-> kind, phase |-> phase, src_image |-> src_id, src |-> src,
     rect |-> rect, corner |-> corner, angle |-> angle,
     translated |-> translated]

NoRect == Rect(0, 0, 0, 0)

NoImage == [exists |-> FALSE, width |-> 0, height |-> 0, box |-> <<0, 0, 0>>,
            undo |-> TRUE, layers |-> 0, vguides |-> <<>>, hguides |-> <<>>,
            drawn |-> <<>>, labels |-> <<>>, displayed |-> FALSE]

(***************************************************************************)
(* Drawing functions                                                       *)
(***************************************************************************)
\* The result of move_drawable_to: whether gimp_layer_translate was called,
\* the drawable afterwards and what was reported.
move_drawable_to(drawable, corner, x, y) ==
    LET left == drawable.left
        top == drawable.top
        right == left + drawable.width
        bottom == top + drawable.height
        known == corner \in Corner
        dx == CASE corner = TOP_LEFT -> x - left
                [] corner = TOP_RIGHT -> x - right
                [] corner = BOTTOM_LEFT -> x - left
                [] corner = BOTTOM_RIGHT -> x - right
                [] corner = CENTER -> x - (left + right) \div 2
                [] OTHER -> 0
        dy == CASE corner = TOP_LEFT -> y - top
                [] corner = TOP_RIGHT -> y - top
                [] corner = BOTTOM_LEFT -> y - bottom
                [] corner = BOTTOM_RIGHT -> y - bottom
                [] corner = CENTER -> y - (top + bottom) \div 2
                [] OTHER -> 0
    IN  IF known
        THEN [translated |-> TRUE,
              drawable |-> [drawable EXCEPT !.left = @ + dx, !.top = @ + dy],
              messages |-> <<>>]
        ELSE [translated |-> FALSE,
              drawable |-> drawable,
              messages |-> <<Message("Invalid corner", <<corner>>)>>]

\* gimp_edit_paste: the clipboard becomes a floating selection centred on
\* the drawable it is pasted into.
Paste(layer, width, height) ==
    [left |-> (layer.width - width) \div 2,
     top |-> (layer.height - height) \div 2,
     width |-> width, height |-> height]

\* gimp_drawable_transform_rotate_simple about the origin (auto_center is
\* FALSE, the centre given is (0, 0)); an angle outside the table of
\* copy_and_rotate_rectangle leaves the drawable alone.
Rotate(f, angle) ==
    CASE angle = 90 -> [left |-> -(f.top + f.height), top |-> f.left,
                        width |-> f.height, height |-> f.width]
      [] angle = 180 -> [left |-> -(f.left + f.width),
                         top |-> -(f.top + f.height),
                         width |-> f.width, height |-> f.height]
      [] angle = 270 -> [left |-> f.top, top |-> -(f.left + f.width),
                         width |-> f.height, height |-> f.width]
      [] OTHER -> f

\* gimp_image_select_rectangle and gimp_edit_copy_visible: the selection of
\* an image is a channel of the image's size, so the part of the rectangle
\* that lies outside the image is not selected, and the clipboard holds
\* what was selected.
ClipToImage(image, r) ==
    LET left == IF r.x < 0 THEN 0 ELSE r.x
        top == IF r.y < 0 THEN 0 ELSE r.y
        right == IF r.x + r.w > image.width THEN image.width ELSE r.x + r.w
        bottom == IF r.y + r.h > image.height THEN image.height
                  ELSE r.y + r.h
    IN  Rect(left, top,
             IF right > left THEN right - left ELSE 0,
             IF bottom > top THEN bottom - top ELSE 0)

\* copy_and_rotate_rectangle: src is [image, width, height] of the image
\* read, dst_layer those of the layer pasted into.  The result is the
\* backend calls made, the messages reported and the history entry of the
\* anchored selection: the rectangle asked for and the rectangle written.
copy_and_rotate_rectangle(src, src_x, src_y, src_width, src_height, dst_layer, dst_x, dst_y, dst_corner, angle) ==
    LET selected == ClipToImage(src, Rect(src_x, src_y, src_width,
                                          src_height))
        floating == Paste(dst_layer, selected.w, selected.h)
        rotated == Rotate(floating, angle)
        moved == move_drawable_to(rotated, dst_corner, dst_x, dst_y)
        final == moved.drawable
    IN  [calls |->
            <<Call("gimp_image_select_rectangle", src.image),
              Call("gimp_edit_copy_visible", src.image),
              Call("gimp_selection_none", src.image),
              Call("gimp_edit_paste", dst_layer.image)>>
            \o (IF angle \in {90, 180, 270}
                THEN <<Call("gimp_drawable_transform_rotate_simple",
                            dst_layer.image)>>
                ELSE <<>>)
            \o (IF moved.translated
                THEN <<Call("gimp_layer_translate", dst_layer.image)>>
                ELSE <<>>)
            \o <<Call("gimp_floating_sel_anchor", dst_layer.image)>>,
         messages |-> moved.messages,
         drawn |-> <<Drawn("anchor", "", src.image,
                           Rect(src_x, src_y, src_width, src_height),
                           Rect(final.left, final.top, final.width,
                                final.height),
                           dst_corner, angle, moved.translated)>>]

\* The rectangle draw_mark fills for one valid direction.
MarkRect(direction, x0, y0, size, distance) ==
    CASE direction = UP -> Rect(x0 - 1, y0 - distance - size, 2, size)
      [] direction = DOWN -> Rect(x0 - 1, y0 + distance, 2, size)
      [] direction = LEFT -> Rect(x0 - distance - size, y0 - 1, size, 2)
      [] direction = RIGHT -> Rect(x0 + distance, y0 - 1, size, 2)

\* draw_mark with the fill after the loop instead of inside it: only the
\* rectangle of the last direction is filled.
draw_mark_fill_after_loop(image, directions, x0, y0, size, distance) ==
    [calls |-> <<Call("gimp_image_select_rectangle", image),
                 Call("gimp_edit_fill", image),
                 Call("gimp_selection_none", image)>>,
     messages |-> <<>>,
     drawn |-> <<Drawn("fill", "", image, NoRect,
                       MarkRect(directions[Len(directions)], x0, y0, size,
                                distance),
                       0, 0, FALSE)>>]

\* draw_mark: the loop over the directions returns at the first value that
\* is no Direction; the rectangles of the directions before it are filled.
draw_mark(image, directions, x0, y0, size, distance) ==
    LET bad == {i \in 1..Len(directions) : directions[i] \notin Direction}
        stop == IF bad = {} THEN Len(directions) + 1
                ELSE CHOOSE i \in bad : \A j \in bad : i <= j
        done == stop - 1
        PerFill == <<Call("gimp_image_select_rectangle", image),
                     Call("gimp_edit_fill", image),
                     Call("gimp_selection_none", image)>>
    IN  [calls |-> [k \in 1..(3 * done) |-> PerFill[((k - 1) % 3) + 1]],
         messages |-> IF stop <= Len(directions)
                      THEN <<Message("Invalid direction",
                                     <<directions[stop]>>)>>
                      ELSE <<>>,
         drawn |-> [k \in 1..done |->
                      Drawn("fill", "", image, NoRect,
                            MarkRect(directions[k], x0, y0, size, distance),
                            0, 0, FALSE)]]


(***************************************************************************)
(* The plug-in's parameters                                                *)
(***************************************************************************)
\* lo <= mm <= hi, the range an adjustment of the dialog allows.
InRange(mm, lo, hi) == RatLe(lo, mm) /\ RatLe(mm, hi)

\* The ranges gimpfu.register gives the parameters of create_wraps.
ParameterSurface(a) ==
    /\ InRange(a.box_width_mm, Mm(10, 1), Mm(500, 1))
    /\ InRange(a.box_height_mm, Mm(10, 1), Mm(500, 1))
    /\ InRange(a.box_depth_mm, Mm(10, 1), Mm(500, 1))
    /\ InRange(a.thickness_mm, Mm(1, 2), Mm(6, 1))
    /\ InRange(a.flap_size_mm, Mm(1, 1), Mm(20, 1))
    /\ InRange(a.inside_size_mm, Mm(1, 1), Mm(50, 1))
    /\ InRange(a.crop_mark_size_mm, Mm(1, 1), Mm(20, 1))
    /\ InRange(a.crop_mark_distance_mm, Mm(0, 1), Mm(10, 1))

\* The values the model tries, inside the ranges: their ends, the defaults
\* of the dialog, and a second box whose template has the size of the
\* default box's.
BoxSamplesMm ==
    ({10, 500} \X {10, 500} \X {10, 500})
        \cup {<<75, 104, 100>>, <<76, 106, 99>>, <<10, 20, 20>>}

ThicknessSamplesMm == {Mm(1, 2), Mm(2, 1)}

FlapSizeSamplesMm == {Mm(1, 1), Mm(10, 1), Mm(20, 1)}

InsideSizeSamplesMm == {Mm(1, 1), Mm(15, 1), Mm(50, 1)}

CropMarkSizeSamplesMm == {Mm(1, 1), Mm(5, 1)}

CropMarkDistanceSamplesMm == {Mm(0, 1), Mm(2, 1)}

WrapArgs ==
    {[box_width_mm |-> Mm(b[1], 1), box_height_mm |-> Mm(b[2], 1),
      box_depth_mm |-> Mm(b[3], 1), thickness_mm |-> t, flap_size_mm |-> f,
      inside_size_mm |-> i, crop_mark_size_mm |-> cs,
      crop_mark_distance_mm |-> cd] :
        b \in BoxSamplesMm, t \in ThicknessSamplesMm,
        f \in FlapSizeSamplesMm, i \in InsideSizeSamplesMm,
        cs \in CropMarkSizeSamplesMm, cd \in CropMarkDistanceSamplesMm}

\* Width and height of a rendered text layer: the font decides.
TextExtents == {<<200, 75>>, <<431, 226>>}

(***************************************************************************)
(* create_wraps: locals, validation, placement tables                      *)
(***************************************************************************)
\* The extra taken off the half height instead of added to it.
HalfBoxHeightLessExtra(half_box_height, thickness, inside_size) ==
    half_box_height - thickness - inside_size

\* half_box_height_plus_extra: what a side face contributes to one sheet.
HalfBoxHeightPlusExtra(half_box_height, thickness, inside_size) ==
    half_box_height + thickness + inside_size

\* The local variables create_wraps computes before it validates.
CreateWrapsLocals(a) ==
    LET box_width == mm_to_px(a.box_width_mm)
        box_height == mm_to_px(a.box_height_mm)
        box_depth == mm_to_px(a.box_depth_mm)
        thickness == mm_to_px(a.thickness_mm)
        flap_size == mm_to_px(a.flap_size_mm)
        inside_size == mm_to_px(a.inside_size_mm)
        crop_mark_size == mm_to_px(a.crop_mark_size_mm)
        crop_mark_distance == mm_to_px(a.crop_mark_distance_mm)
        half_box_height == box_height \div 2
        src == template_coordinates(box_width, box_height, box_depth)
        wrap == wrap_coordinates(box_width, box_height, box_depth,
                                 thickness, inside_size, flap_size,
                                 crop_mark_size, crop_mark_distance)
    IN  [args |-> a,
         box_width |-> box_width, box_height |-> box_height,
         box_depth |-> box_depth, thickness |-> thickness,
         flap_size |-> flap_size, inside_size |-> inside_size,
         crop_mark_size |-> crop_mark_size,
         crop_mark_distance |-> crop_mark_distance,
         half_box_height |-> half_box_height,
         half_box_height_plus_extra |->
             HalfBoxHeightPlusExtra(half_box_height, thickness, inside_size),
         src_xs |-> src[1], src_ys |-> src[2],
         src_image_width |-> Last(src[1]) - At(src[1], 0),
         src_image_height |-> Last(src[2]) - At(src[2], 0),
         dst_xs |-> wrap[1], dst_ys |-> wrap[2],
         dst_image_width |-> Last(wrap[1]) - At(wrap[1], 0),
         dst_image_height |-> Last(wrap[2]) - At(wrap[2], 0)]

\* The validation with "and" for "or": both sides must be wrong.
SizeMismatchBoth(image, l) ==
    /\ image.width # l.src_image_width
    /\ image.height # l.src_image_height

\* "Make sure we have the right dimensions".
SizeMismatch(image, l) ==
    \/ image.width # l.src_image_width
    \/ image.height # l.src_image_height

SizeMismatchMessage(image, l) ==
    Message("Template image has the wrong size",
            <<l.src_image_width, l.src_image_height,
              FormatD(px_to_mm(l.src_image_width)),
              FormatD(px_to_mm(l.src_image_height)),
              image.width, image.height,
              FormatD(px_to_mm(image.width)),
              FormatD(px_to_mm(image.height))>>)

\* Rows (src_x, src_y, src_width, src_height, dst_x, dst_y, dst_corner,
\* rotation_angle): Top, Left, Front, Right, Back.
copy_and_rotate_definitions_top(l) ==
    <<
      <<At(l.src_xs, 1), At(l.src_ys, 0), l.box_width, l.box_depth,
        At(l.dst_xs, 5), At(l.dst_ys, 4), TOP_LEFT, 0>>,
      <<At(l.src_xs, 0), At(l.src_ys, 1), l.box_depth,
        l.half_box_height_plus_extra,
        At(l.dst_xs, 5), At(l.dst_ys, 4), TOP_RIGHT, 90>>,
      <<At(l.src_xs, 1), At(l.src_ys, 1), l.box_width,
        l.half_box_height_plus_extra,
        At(l.dst_xs, 5), At(l.dst_ys, 7), TOP_LEFT, 0>>,
      <<At(l.src_xs, 2), At(l.src_ys, 1), l.box_depth,
        l.half_box_height_plus_extra,
        At(l.dst_xs, 6), At(l.dst_ys, 4), TOP_LEFT, 270>>,
      <<At(l.src_xs, 3), At(l.src_ys, 1), l.box_width,
        l.half_box_height_plus_extra,
        At(l.dst_xs, 5), At(l.dst_ys, 4), BOTTOM_LEFT, 180>>
    >>

\* Rows: Left, Front, Right, Back, Bottom.
copy_and_rotate_definitions_bottom(l) ==
    <<
      <<At(l.src_xs, 0), At(l.src_ys, 3) - l.half_box_height_plus_extra,
        l.box_depth, l.half_box_height_plus_extra,
        At(l.dst_xs, 5), At(l.dst_ys, 4), TOP_RIGHT, 270>>,
      <<At(l.src_xs, 1), At(l.src_ys, 3) - l.half_box_height_plus_extra,
        l.box_width, l.half_box_height_plus_extra,
        At(l.dst_xs, 5), At(l.dst_ys, 1), TOP_LEFT, 0>>,
      <<At(l.src_xs, 2), At(l.src_ys, 3) - l.half_box_height_plus_extra,
        l.box_depth, l.half_box_height_plus_extra,
        At(l.dst_xs, 6), At(l.dst_ys, 4), TOP_LEFT, 90>>,
      <<At(l.src_xs, 3), At(l.src_ys, 3) - l.half_box_height_plus_extra,
        l.box_width, l.half_box_height_plus_extra,
        At(l.dst_xs, 5), At(l.dst_ys, 10), BOTTOM_LEFT, 180>>,
      <<At(l.src_xs, 1), At(l.src_ys, 3), l.box_width, l.box_depth,
        At(l.dst_xs, 5), At(l.dst_ys, 4), TOP_LEFT, 0>>
    >>

\* The four strips draw() copies inside the destination image, as rows of
\* the same shape.
FlapDefinitions(l) ==
    <<
      <<At(l.dst_xs, 1), At(l.dst_ys, 4), l.half_box_height_plus_extra,
        l.flap_size, At(l.dst_xs, 5), At(l.dst_ys, 4), BOTTOM_RIGHT, 90>>,
      <<At(l.dst_xs, 1), At(l.dst_ys, 6), l.half_box_height_plus_extra,
        l.flap_size, At(l.dst_xs, 5), At(l.dst_ys, 7), TOP_RIGHT, 270>>,
      <<At(l.dst_xs, 6), At(l.dst_ys, 4), l.half_box_height_plus_extra,
        l.flap_size, At(l.dst_xs, 6), At(l.dst_ys, 4), BOTTOM_LEFT, 270>>,
      <<At(l.dst_xs, 6), At(l.dst_ys, 6), l.half_box_height_plus_extra,
        l.flap_size, At(l.dst_xs, 6), At(l.dst_ys, 7), TOP_LEFT, 90>>
    >>

\* The twelve draw_mark calls of draw(): (directions, x0, y0).
MarkDefinitions(l) ==
    <<
      << <<UP, LEFT>>, At(l.dst_xs, 4), At(l.dst_ys, 1) >>,
      << <<UP>>, At(l.dst_xs, 5), At(l.dst_ys, 1) >>,
      << <<UP>>, At(l.dst_xs, 6), At(l.dst_ys, 1) >>,
      << <<UP, RIGHT>>, At(l.dst_xs, 7), At(l.dst_ys, 1) >>,
      << <<UP, LEFT>>, At(l.dst_xs, 1), At(l.dst_ys, 4) >>,
      << <<UP, RIGHT>>, At(l.dst_xs, 10), At(l.dst_ys, 4) >>,
      << <<DOWN, LEFT>>, At(l.dst_xs, 1), At(l.dst_ys, 7) >>,
      << <<DOWN, RIGHT>>, At(l.dst_xs, 10), At(l.dst_ys, 7) >>,
      << <<DOWN, LEFT>>, At(l.dst_xs, 4), At(l.dst_ys, 10) >>,
      << <<DOWN>>, At(l.dst_xs, 5), At(l.dst_ys, 10) >>,
      << <<DOWN>>, At(l.dst_xs, 6), At(l.dst_ys, 10) >>,
      << <<DOWN, RIGHT>>, At(l.dst_xs, 7), At(l.dst_ys, 10) >>
    >>

Instruction(phase, d, m) == [phase |-> phase, d |-> d, m |-> m]

PrimaryInstructions(definitions) ==
    [k \in 1..Len(definitions) |->
        Instruction("primary", definitions[k], <<>>)]

SecondaryInstructions(l) ==
    [k \in 1..4 |-> Instruction("secondary", FlapDefinitions(l)[k], <<>>)]

MarkInstructions(l) ==
    [k \in 1..12 |-> Instruction("marks", <<>>, MarkDefinitions(l)[k])]

\* The statements of draw() after the guides, in program order: the loop
\* over the definitions, the four flap strips, the twelve marks.
Instructions(l, definitions) ==
    PrimaryInstructions(definitions) \o SecondaryInstructions(l)
        \o MarkInstructions(l)


(***************************************************************************)
(* The plug-in as a state machine                                          *)
(***************************************************************************)
HasLocals == Len(locals) = 1

L == locals[1]

NoImages == [top |-> NoImage, bottom |-> NoImage]

Definitions(which, l) ==
    IF which = "top" THEN copy_and_rotate_definitions_top(l)
    ELSE copy_and_rotate_definitions_bottom(l)

Repeat(call, n) == [k \in 1..n |-> call]

SetPhase(drawn, phase) ==
    [k \in 1..Len(drawn) |-> [drawn[k] EXCEPT !.phase = phase]]

\* put_text: the label's layer is moved so that its centre is the centre of
\* the rectangle, and merged down.
PutText(text, left, right, top, bottom, extent) ==
    LET text_layer == [left |-> 0, top |-> 0, width |-> extent[1],
                       height |-> extent[2]]
        moved == move_drawable_to(text_layer, CENTER,
                                  (left + right) \div 2,
                                  (top + bottom) \div 2)
    IN  [text |-> text, x |-> (left + right) \div 2,
         y |-> (top + bottom) \div 2, translated |-> moved.translated]

\* The image create_template has built when it returns.
TemplateImage(box_width, box_height, box_depth, extent) ==
    LET coords == template_coordinates(box_width, box_height, box_depth)
        xs == coords[1]
        ys == coords[2]
        image_width == Last(xs) - At(xs, 0)
        image_height == Last(ys) - At(ys, 0)
    IN  [exists |-> TRUE, width |-> image_width, height |-> image_height,
         box |-> <<box_width, box_height, box_depth>>,
         undo |-> TRUE, layers |-> 1, vguides |-> xs, hguides |-> ys,
         drawn |->
            <<Drawn("fill", "white", "template", NoRect,
                    Rect(At(xs, 0), At(ys, 1), image_width,
                         At(ys, 3) - At(ys, 1)), 0, 0, FALSE),
              Drawn("fill", "white", "template", NoRect,
                    Rect(At(xs, 1), At(ys, 0), At(xs, 2) - At(xs, 1),
                         image_height), 0, 0, FALSE)>>,
         labels |->
            <<PutText("TOP", At(xs, 1), At(xs, 2), At(ys, 0), At(ys, 1),
                      extent),
              PutText("LEFT", At(xs, 0), At(xs, 1), At(ys, 1), At(ys, 3),
                      extent),
              PutText("FRONT", At(xs, 1), At(xs, 2), At(ys, 1), At(ys, 3),
                      extent),
              PutText("RIGHT", At(xs, 2), At(xs, 3), At(ys, 1), At(ys, 3),
                      extent),
              PutText("BACK", At(xs, 3), At(xs, 4), At(ys, 1), At(ys, 3),
                      extent),
              PutText("BOTTOM", At(xs, 1), At(xs, 2), At(ys, 3), At(ys, 4),
                      extent),
              PutText("Box width, height, depth", At(xs, 0), At(xs, 1),
                      At(ys, 0), At(ys, 1), extent)>>,
         displayed |-> TRUE]

\* create_template, the whole procedure: the image is as the coordinates
\* say, and every scope it opens is closed when it returns.
CreateTemplate(w, h, d) ==
    /\ pc = "idle"
    /\ \E extent \in TextExtents :
        LET image == TemplateImage(mm_to_px(Mm(w, 1)), mm_to_px(Mm(h, 1)),
                                   mm_to_px(Mm(d, 1)), extent)
            PerLabel == <<Call("gimp_progress_pulse", "template"),
                          Call("gimp_text_layer_new", "template"),
                          Call("add_layer", "template"),
                          Call("gimp_layer_translate", "template"),
                          Call("gimp_image_merge_down", "template")>>
        IN  /\ src_image' = image
            /\ calls' =
                <<Call("context_push", "gimp"),
                  Call("gimp_context_set_defaults", "gimp"),
                  Call("gimp.Image", "template"),
                  Call("disable_undo", "template"),
                  Call("gimp.Layer", "template"),
                  Call("add_layer", "template")>>
                \o Repeat(Call("add_vguide", "template"), Len(image.vguides))
                \o Repeat(Call("add_hguide", "template"), Len(image.hguides))
                \o <<Call("gimp_selection_none", "template"),
                     Call("gimp_progress_pulse", "template"),
                     Call("gimp_image_select_rectangle", "template"),
                     Call("gimp_progress_pulse", "template"),
                     Call("gimp_image_select_rectangle", "template"),
                     Call("gimp_edit_fill", "template"),
                     Call("gimp_selection_none", "template")>>
                \o [k \in 1..(5 * Len(image.labels)) |->
                        PerLabel[((k - 1) % 5) + 1]]
                \o <<Call("gimp.Display", "template"),
                     Call("enable_undo", "template"),
                     Call("context_pop", "gimp"),
                     Call("displays_flush", "gimp")>>
    /\ locals' = <<>>
    /\ messages' = <<>>
    /\ dst' = NoImages
    /\ UNCHANGED <<pc, sheet, ip, context_depth, unit_vars>>

\* create_wraps on a template of another size than predicted: one message,
\* and the procedure returns.
CreateWrapsMismatch(a) ==
    /\ pc = "idle"
    /\ src_image.exists
    /\ LET l == CreateWrapsLocals(a)
       IN  /\ SizeMismatch(src_image, l)
           /\ locals' = <<l>>
           /\ messages' = <<SizeMismatchMessage(src_image, l)>>
    /\ calls' = <<>>
    /\ dst' = NoImages
    /\ pc' = "returned"
    /\ UNCHANGED <<src_image, sheet, ip, context_depth, unit_vars>>

\* create_wraps on a template of the predicted size: DefaultContext is
\* entered.
CreateWrapsEnter(a) ==
    /\ pc = "idle"
    /\ src_image.exists
    /\ LET l == CreateWrapsLocals(a)
       IN  /\ ~SizeMismatch(src_image, l)
           /\ locals' = <<l>>
    /\ messages' = <<>>
    /\ calls' = <<Call("context_push", "gimp"),
                  Call("gimp_context_set_defaults", "gimp")>>
    /\ context_depth' = context_depth + 1
    /\ dst' = NoImages
    /\ sheet' = "top"
    /\ ip' = 0
    /\ pc' = "new_image"
    /\ UNCHANGED <<src_image, unit_vars>>

\* gimp.Image(...) and PausedUndo.__enter__ for the sheet.
NewImage ==
    /\ pc = "new_image"
    /\ dst' = [dst EXCEPT ![sheet] =
                [NoImage EXCEPT !.exists = TRUE,
                                !.width = L.dst_image_width,
                                !.height = L.dst_image_height,
                                !.undo = FALSE]]
    /\ calls' = calls \o <<Call("gimp.Image", sheet),
                           Call("disable_undo", sheet)>>
    /\ pc' = "draw_begin"
    /\ UNCHANGED <<src_image, locals, sheet, ip, context_depth, messages,
                   unit_vars>>

\* draw(): the white layer and the guides.
DrawBegin ==
    /\ pc = "draw_begin"
    /\ dst' = [dst EXCEPT ![sheet].layers = 1,
                          ![sheet].vguides = L.dst_xs,
                          ![sheet].hguides = L.dst_ys]
    /\ calls' = calls \o <<Call("gimp.Layer", sheet),
                           Call("fill", sheet),
                           Call("add_layer", sheet)>>
                      \o Repeat(Call("add_vguide", sheet), Len(L.dst_xs))
                      \o Repeat(Call("add_hguide", sheet), Len(L.dst_ys))
    /\ ip' = 0
    /\ pc' = "draw"
    /\ UNCHANGED <<src_image, locals, sheet, context_depth, messages,
                   unit_vars>>

Program == Instructions(L, Definitions(sheet, L))

Current == Program[ip + 1]

DstLayer == [image |-> sheet, width |-> L.dst_image_width,
             height |-> L.dst_image_height]

Template == [image |-> "template", width |-> src_image.width,
             height |-> src_image.height]

\* What one statement of draw() does to the sheet.
Apply(result, phase) ==
    /\ dst' = [dst EXCEPT ![sheet].drawn = @ \o SetPhase(result.drawn, phase)]
    /\ messages' = messages \o result.messages
    /\ ip' = ip + 1
    /\ pc' = IF ip + 1 = Len(Program) THEN "draw_end" ELSE "draw"
    /\ UNCHANGED <<src_image, locals, sheet, context_depth, unit_vars>>

\* One turn of the loop over copy_and_rotate_definitions: a face of the
\* template is copied into the sheet.
Place ==
    /\ pc = "draw"
    /\ Current.phase = "primary"
    /\ LET d == Current.d
           result == copy_and_rotate_rectangle(
                        Template, d[1], d[2], d[3], d[4], DstLayer,
                        d[5], d[6], d[7], d[8])
       IN  /\ Apply(result, "primary")
           /\ calls' = calls \o <<Call("gimp_progress_pulse", sheet)>>
                             \o result.calls

\* One of the four flap strips: copied from the sheet into the sheet.
Flap ==
    /\ pc = "draw"
    /\ Current.phase = "secondary"
    /\ LET d == Current.d
           result == copy_and_rotate_rectangle(
                        DstLayer, d[1], d[2], d[3], d[4], DstLayer,
                        d[5], d[6], d[7], d[8])
       IN  /\ Apply(result, "secondary")
           /\ calls' = calls \o <<Call("gimp_progress_pulse", sheet)>>
                             \o result.calls

\* One of the twelve draw_mark calls.
Mark ==
    /\ pc = "draw"
    /\ Current.phase = "marks"
    /\ LET m == Current.m
           result == draw_mark(sheet, m[1], m[2], m[3], L.crop_mark_size,
                               L.crop_mark_distance)
       IN  /\ Apply(result, "marks")
           /\ calls' = calls \o result.calls

\* The end of draw(), gimp.Display and PausedUndo.__exit__; the bottom
\* sheet follows the top one.
DrawEnd ==
    /\ pc = "draw_end"
    /\ dst' = [dst EXCEPT ![sheet].displayed = TRUE, ![sheet].undo = TRUE]
    /\ calls' = calls \o <<Call("gimp_selection_none", sheet),
                           Call("gimp.Display", sheet),
                           Call("enable_undo", sheet)>>
    /\ IF sheet = "top"
       THEN sheet' = "bottom" /\ pc' = "new_image"
       ELSE sheet' = sheet /\ pc' = "exit_context"
    /\ UNCHANGED <<src_image, locals, ip, context_depth, messages, unit_vars>>

\* DefaultContext.__exit__ and gimp.displays_flush: create_wraps returns.
ExitContext ==
    /\ pc = "exit_context"
    /\ context_depth' = context_depth - 1
    /\ calls' = calls \o <<Call("context_pop", "gimp"),
                           Call("displays_flush", "gimp")>>
    /\ sheet' = "none"
    /\ pc' = "returned"
    /\ UNCHANGED <<src_image, locals, ip, dst, messages, unit_vars>>

\* The record of the finished create_wraps call is dropped: no later call
\* reads the images, messages or locals of an earlier one.
Forget ==
    /\ pc = "returned"
    /\ pc' = "idle"
    /\ locals' = <<>>
    /\ messages' = <<>>
    /\ calls' = <<>>
    /\ dst' = NoImages
    /\ ip' = 0
    /\ UNCHANGED <<src_image, sheet, context_depth, unit_vars>>

UnitsIdle ==
    /\ mm_in = Mm(0, 1)
    /\ px_out = <<>>
    /\ mm_out = <<>>
    /\ prev = <<>>

PluginIdle ==
    /\ pc = "idle"
    /\ src_image = NoImage
    /\ locals = <<>>
    /\ sheet = "none"
    /\ ip = 0
    /\ dst = NoImages
    /\ context_depth = 0
    /\ messages = <<>>
    /\ calls = <<>>

Init == PluginIdle /\ UnitsIdle

Next ==
    \/ \E b \in BoxSamplesMm : CreateTemplate(b[1], b[2], b[3])
    \/ \E a \in WrapArgs : CreateWrapsMismatch(a)
    \/ \E a \in WrapArgs : CreateWrapsEnter(a)
    \/ NewImage
    \/ DrawBegin
    \/ Place
    \/ Flap
    \/ Mark
    \/ DrawEnd
    \/ ExitContext
    \/ Forget

Spec == Init /\ [][Next]_vars


(***************************************************************************)
(* The unit converter on its own                                           *)
(***************************************************************************)
\* Millimetre values n/d up to MaxMm, for every denominator up to MaxDen.
MaxMm == 500

MaxDen == 8

UnitInputs == UNION {{Mm(n, d) : n \in 0..(MaxMm * d)} : d \in 1..MaxDen}

\* mm_to_px applied to the input.
Convert ==
    /\ px_out = <<>>
    /\ px_out' = <<mm_to_px(mm_in)>>
    /\ UNCHANGED <<mm_in, mm_out, prev, plugin_vars>>

\* px_to_mm applied to the pixels.
ConvertBack ==
    /\ px_out # <<>>
    /\ mm_out = <<>>
    /\ mm_out' = <<px_to_mm(px_out[1])>>
    /\ UNCHANGED <<mm_in, px_out, prev, plugin_vars>>

\* The next larger input with the same denominator; the converted one is
\* kept to compare with.
NextInput ==
    /\ px_out # <<>>
    /\ mm_in.num < MaxMm * mm_in.den
    /\ prev' = <<[mm |-> mm_in, px |-> px_out[1]]>>
    /\ mm_in' = Mm(mm_in.num + 1, mm_in.den)
    /\ px_out' = <<>>
    /\ mm_out' = <<>>
    /\ UNCHANGED plugin_vars

InitUnits ==
    /\ PluginIdle
    /\ mm_in \in UnitInputs
    /\ px_out = <<>>
    /\ mm_out = <<>>
    /\ prev = <<>>

NextUnits == Convert \/ ConvertBack \/ NextInput

SpecUnits == InitUnits /\ [][NextUnits]_vars


(***************************************************************************)
(* The drawing functions called on their own                               *)
(***************************************************************************)
\* copy_and_rotate_rectangle and draw_mark are module-level functions: they
\* can be given any corner and any directions.  The sheet they draw on is
\* the top sheet of the default box as draw() has prepared it.
MaxApiCalls == 2

DefaultArgs ==
    [box_width_mm |-> Mm(75, 1), box_height_mm |-> Mm(104, 1),
     box_depth_mm |-> Mm(100, 1), thickness_mm |-> Mm(2, 1),
     flap_size_mm |-> Mm(10, 1), inside_size_mm |-> Mm(15, 1),
     crop_mark_size_mm |-> Mm(5, 1), crop_mark_distance_mm |-> Mm(2, 1)]

ApiCorners == Corner \cup {0, 6}

ApiAngles == {0, 90, 180, 270}

ApiRows ==
    LET l == CreateWrapsLocals(DefaultArgs)
    IN  {copy_and_rotate_definitions_top(l)[1],
         copy_and_rotate_definitions_top(l)[2],
         FlapDefinitions(l)[1]}

ApiDirections ==
    {<<UP>>, <<UP, LEFT>>, <<DOWN, RIGHT>>, <<0>>, <<UP, 0>>, <<0, LEFT>>,
     <<5, 0>>}

ApiCall(fn, valid) ==
    [fn |-> fn, valid |-> valid, drawn_before |-> Len(dst.top.drawn),
     messages_before |-> Len(messages)]

ApiApply(result, fn, valid) ==
    /\ dst' = [dst EXCEPT !.top.drawn = @ \o result.drawn]
    /\ messages' = messages \o result.messages
    /\ calls' = calls \o result.calls
    /\ locals' = <<ApiCall(fn, valid)>>
    /\ ip' = ip + 1
    /\ UNCHANGED <<pc, src_image, sheet, context_depth, unit_vars>>

\* copy_and_rotate_rectangle with the source and target of a row of the
\* tables, and any corner and angle.
ApiCopyAndRotate(d, corner, angle) ==
    /\ pc = "api"
    /\ ip < MaxApiCalls
    /\ ApiApply(copy_and_rotate_rectangle(
                    Template, d[1], d[2], d[3], d[4],
                    [image |-> "top", width |-> dst.top.width,
                     height |-> dst.top.height],
                    d[5], d[6], corner, angle),
                "copy_and_rotate_rectangle", corner \in Corner)

\* draw_mark at a corner of the layout, with any directions.
ApiDrawMark(directions, m) ==
    /\ pc = "api"
    /\ ip < MaxApiCalls
    /\ LET l == CreateWrapsLocals(DefaultArgs)
       IN  ApiApply(draw_mark("top", directions, m[2], m[3],
                              l.crop_mark_size, l.crop_mark_distance),
                    "draw_mark",
                    \A k \in 1..Len(directions) :
                        directions[k] \in Direction)

InitApi ==
    /\ UnitsIdle
    /\ pc = "api"
    /\ \E extent \in TextExtents :
          src_image = TemplateImage(mm_to_px(Mm(75, 1)), mm_to_px(Mm(104, 1)),
                                    mm_to_px(Mm(100, 1)), extent)
    /\ locals = <<>>
    /\ sheet = "top"
    /\ ip = 0
    /\ LET l == CreateWrapsLocals(DefaultArgs)
       IN  dst = [top |-> [NoImage EXCEPT !.exists = TRUE,
                                           !.width = l.dst_image_width,
                                           !.height = l.dst_image_height,
                                           !.undo = FALSE,
                                           !.layers = 1,
                                           !.vguides = l.dst_xs,
                                           !.hguides = l.dst_ys],
                  bottom |-> NoImage]
    /\ context_depth = 1
    /\ messages = <<>>
    /\ calls = <<>>

NextApi ==
    \/ \E d \in ApiRows, corner \in ApiCorners, angle \in ApiAngles :
          ApiCopyAndRotate(d, corner, angle)
    \/ \E directions \in ApiDirections :
          \E m \in {MarkDefinitions(CreateWrapsLocals(DefaultArgs))[k] :
                        k \in {1, 5}} :
              ApiDrawMark(directions, m)

SpecApi == InitApi /\ [][NextApi]_vars

(***************************************************************************)
(* Backend calls that fail                                                 *)
(***************************************************************************)
\* A call of gimp or pdb that fails raises an exception.  The with
\* statement calls __exit__ of a guard whose __enter__ has returned, and
\* both __exit__ methods return False: the exception leaves the procedure.
\* The calls of the __exit__ methods themselves are taken to succeed.
MaxLeaks == 2

ScopeBoxesMm == {<<75, 104, 100>>, <<10, 10, 10>>}

\* create_template in which one call fails: gimp_context_set_defaults in
\* DefaultContext.__enter__ (the context is pushed, __exit__ is not
\* called), gimp.Image (inside DefaultContext only), disable_undo in
\* PausedUndo.__enter__, or gimp_edit_fill inside both scopes.
CreateTemplateFails(w, h, d, failing) ==
    /\ pc = "idle"
    /\ failing \in {"gimp_context_set_defaults", "gimp.Image",
                    "disable_undo", "gimp_edit_fill"}
    /\ failing = "gimp_context_set_defaults" => context_depth < MaxLeaks
    /\ \E extent \in TextExtents :
        LET image == TemplateImage(mm_to_px(Mm(w, 1)), mm_to_px(Mm(h, 1)),
                                   mm_to_px(Mm(d, 1)), extent)
            created == [image EXCEPT !.layers = 0, !.vguides = <<>>,
                                     !.hguides = <<>>, !.drawn = <<>>,
                                     !.labels = <<>>, !.displayed = FALSE]
            entered == <<Call("context_push", "gimp"),
                         Call("gimp_context_set_defaults", "gimp")>>
        IN  CASE failing = "gimp_context_set_defaults" ->
                    /\ calls' = <<Call("context_push", "gimp"),
                                  Call("raise", "gimp")>>
                    /\ context_depth' = context_depth + 1
                    /\ UNCHANGED src_image
              [] failing = "gimp.Image" ->
                    /\ calls' = entered \o <<Call("raise", "template"),
                                             Call("context_pop", "gimp")>>
                    /\ UNCHANGED <<src_image, context_depth>>
              [] failing = "disable_undo" ->
                    /\ calls' = entered \o <<Call("gimp.Image", "template"),
                                             Call("raise", "template"),
                                             Call("context_pop", "gimp")>>
                    /\ src_image' = created
                    /\ UNCHANGED context_depth
              [] failing = "gimp_edit_fill" ->
                    /\ calls' =
                        entered
                        \o <<Call("gimp.Image", "template"),
                             Call("disable_undo", "template"),
                             Call("gimp.Layer", "template"),
                             Call("add_layer", "template")>>
                        \o Repeat(Call("add_vguide", "template"),
                                  Len(image.vguides))
                        \o Repeat(Call("add_hguide", "template"),
                                  Len(image.hguides))
                        \o <<Call("gimp_selection_none", "template"),
                             Call("gimp_progress_pulse", "template"),
                             Call("gimp_image_select_rectangle", "template"),
                             Call("gimp_progress_pulse", "template"),
                             Call("gimp_image_select_rectangle", "template"),
                             Call("raise", "template"),
                             Call("enable_undo", "template"),
                             Call("context_pop", "gimp")>>
                    /\ src_image' = [created EXCEPT
                                        !.layers = 1,
                                        !.vguides = image.vguides,
                                        !.hguides = image.hguides]
                    /\ UNCHANGED context_depth
    /\ locals' = <<>>
    /\ messages' = <<>>
    /\ dst' = NoImages
    /\ UNCHANGED <<pc, sheet, ip, unit_vars>>

\* create_wraps in which gimp_context_set_defaults fails: the exception
\* leaves DefaultContext.__enter__ after gimp.context_push().
CreateWrapsEnterFails(a) ==
    /\ pc = "idle"
    /\ src_image.exists
    /\ context_depth < MaxLeaks
    /\ LET l == CreateWrapsLocals(a)
       IN  /\ ~SizeMismatch(src_image, l)
           /\ locals' = <<l>>
    /\ messages' = <<>>
    /\ calls' = <<Call("context_push", "gimp"), Call("raise", "gimp")>>
    /\ context_depth' = context_depth + 1
    /\ dst' = NoImages
    /\ pc' = "returned"
    /\ UNCHANGED <<src_image, sheet, ip, unit_vars>>

\* gimp.Image or disable_undo fails for the sheet: PausedUndo is not
\* entered.
RaiseInNewImage(failing) ==
    /\ pc = "new_image"
    /\ failing \in {"gimp.Image", "disable_undo"}
    /\ IF failing = "disable_undo"
       THEN /\ dst' = [dst EXCEPT ![sheet] =
                        [NoImage EXCEPT !.exists = TRUE,
                                        !.width = L.dst_image_width,
                                        !.height = L.dst_image_height]]
            /\ calls' = calls \o <<Call("gimp.Image", sheet),
                                   Call("raise", sheet)>>
       ELSE /\ calls' = calls \o <<Call("raise", sheet)>>
            /\ UNCHANGED dst
    /\ pc' = "raising"
    /\ UNCHANGED <<src_image, locals, sheet, ip, context_depth, messages,
                   unit_vars>>

\* The next call of draw(), or gimp.Display, fails inside PausedUndo.
RaiseInDraw ==
    /\ pc \in {"draw_begin", "draw", "draw_end"}
    /\ calls' = calls \o <<Call("raise", sheet)>>
    /\ pc' = "raising"
    /\ UNCHANGED <<src_image, locals, sheet, ip, dst, context_depth,
                   messages, unit_vars>>

\* The exception leaves the with statements: PausedUndo.__exit__ if the
\* sheet's PausedUndo was entered, then DefaultContext.__exit__.
Unwind ==
    /\ pc = "raising"
    /\ IF dst[sheet].exists /\ ~dst[sheet].undo
       THEN /\ dst' = [dst EXCEPT ![sheet].undo = TRUE]
            /\ calls' = calls \o <<Call("enable_undo", sheet),
                                   Call("context_pop", "gimp")>>
       ELSE /\ calls' = calls \o <<Call("context_pop", "gimp")>>
            /\ UNCHANGED dst
    /\ context_depth' = context_depth - 1
    /\ sheet' = "none"
    /\ pc' = "returned"
    /\ UNCHANGED <<src_image, locals, ip, messages, unit_vars>>

NextScopes ==
    \/ \E b \in ScopeBoxesMm : CreateTemplate(b[1], b[2], b[3])
    \/ \E b \in ScopeBoxesMm :
          \E failing \in {"gimp_context_set_defaults", "gimp.Image",
                          "disable_undo", "gimp_edit_fill"} :
              CreateTemplateFails(b[1], b[2], b[3], failing)
    \/ CreateWrapsMismatch(DefaultArgs)
    \/ CreateWrapsEnter(DefaultArgs)
    \/ CreateWrapsEnterFails(DefaultArgs)
    \/ NewImage
    \/ DrawBegin
    \/ Place
    \/ Flap
    \/ Mark
    \/ DrawEnd
    \/ ExitContext
    \/ \E failing \in {"gimp.Image", "disable_undo"} :
          RaiseInNewImage(failing)
    \/ RaiseInDraw
    \/ Unwind
    \/ Forget

SpecScopes == Init /\ [][NextScopes]_vars

(***************************************************************************)
(* Properties of the unit converter (SpecUnits)                            *)
(***************************************************************************)
C9_KnownValues ==
    {<<Mm(75, 1), 886>>, <<Mm(104, 1), 1228>>, <<Mm(100, 1), 1181>>,
     <<Mm(2, 1), 24>>, <<Mm(10, 1), 118>>, <<Mm(15, 1), 177>>,
     <<Mm(5, 1), 59>>}

Drawing == HasLocals /\ (pc \notin {"idle", "returned"} \/ dst.top.exists)

GridsIncreasing ==
    StrictlyIncreasing(L.dst_xs) /\ StrictlyIncreasing(L.dst_ys)

\* The template size the box of the call predicts.
PredictedWidth == 2 * (L.box_width + L.box_depth)

PredictedHeight == L.box_height + 2 * L.box_depth

C1_Mismatched ==
    /\ HasLocals
    /\ \/ src_image.width # PredictedWidth
       \/ src_image.height # PredictedHeight

\* C1: create_wraps on a source image whose width or height differs from
\* the predicted template size reports one size-mismatch message (expected
\* and actual size in pixels and millimetres) and returns with no drawing
\* side effect: no destination image, no context push, no undo change, no
\* backend call on any image.
C1_SizeMismatchAbortsCleanly ==
    C1_Mismatched =>
        /\ pc = "returned"
        /\ Len(messages) = 1
        /\ messages[1].text = "Template image has the wrong size"
        /\ messages[1].values =
              <<PredictedWidth, PredictedHeight,
                (PredictedWidth * 254) \div 3000,
                (PredictedHeight * 254) \div 3000,
                src_image.width, src_image.height,
                (src_image.width * 254) \div 3000,
                (src_image.height * 254) \div 3000>>
        /\ calls = <<>>
        /\ ~dst.top.exists
        /\ ~dst.bottom.exists
        /\ context_depth = 0
        /\ src_image.undo

\* A template of the right width and the wrong height was rejected.
C1_Witness ==
    /\ C1_Mismatched
    /\ pc = "returned"
    /\ src_image.width = PredictedWidth
    /\ src_image.height # PredictedHeight
    /\ Len(messages) = 1

\* C2: create_wraps draws only if the three box dimensions of the call are
\* those the template was built with.
C2_DrawsOnlyIfAllThreeMatch ==
    Drawing => <<L.box_width, L.box_height, L.box_depth>> = src_image.box

\* C3: for every parameter set inside the ranges of the dialog, both
\* sequences of wrap_coordinates are strictly increasing from 0.
C3_GridIncreasingOnParameterSurface ==
    (HasLocals /\ ParameterSurface(L.args)) =>
        /\ At(L.dst_xs, 0) = 0
        /\ At(L.dst_ys, 0) = 0
        /\ StrictlyIncreasing(L.dst_xs)
        /\ StrictlyIncreasing(L.dst_ys)

PhaseRank(phase) ==
    CASE phase = "primary" -> 1
      [] phase = "secondary" -> 2
      [] phase = "marks" -> 3

\* C4: on each wrap sheet the five face placements come first, each
\* anchored, then the four flap placements, then the crop marks (twelve,
\* twenty rectangles); and when the wrap grids are strictly increasing, the
\* strip (half_box_height_plus_extra wide, flap_size high) a flap placement
\* reads from the sheet lies inside the rectangle an earlier, anchored face
\* placement wrote: the rotated LEFT or RIGHT face.
C4_PhasesInOrderAndFlapsReadWrittenPixels ==
    \A s \in {"top", "bottom"} :
        LET dr == dst[s].drawn
        IN  /\ \A i, j \in 1..Len(dr) :
                  i < j => PhaseRank(dr[i].phase) <= PhaseRank(dr[j].phase)
            /\ \A i \in 1..Len(dr) :
                  /\ dr[i].phase = "primary" => i <= 5
                  /\ dr[i].phase = "secondary" => i \in 6..9
                  /\ dr[i].phase = "marks" => i \in 10..29
                  /\ dr[i].phase \in {"primary", "secondary"} =>
                        dr[i].kind = "anchor" /\ dr[i].translated
                  /\ dr[i].phase = "marks" => dr[i].kind = "fill"
            /\ dst[s].displayed => Len(dr) = 29
            /\ (pc = "draw_end" /\ sheet = s) => Len(dr) = 29 /\ ip = 21
            /\ (HasLocals /\ GridsIncreasing) =>
                  \A j \in 1..Len(dr) :
                      dr[j].phase = "secondary" =>
                          /\ dr[j].src_image = s
                          /\ dr[j].src.w = L.half_box_height_plus_extra
                          /\ dr[j].src.h = L.flap_size
                          /\ \E i \in 1..(j - 1) :
                                /\ dr[i].phase = "primary"
                                /\ dr[i].src_image = "template"
                                /\ dr[i].src.x \in {At(L.src_xs, 0),
                                                    At(L.src_xs, 2)}
                                /\ dr[i].angle \in {90, 270}
                                /\ Contains(dr[i].rect, dr[j].src)

SrcRect(d) == Rect(d[1], d[2], d[3], d[4])

TopTable == copy_and_rotate_definitions_top(L)

BottomTable == copy_and_rotate_definitions_bottom(L)

\* Both tables have a placement anchored at (dst_xs[5], dst_ys[4]).
SharedAnchor ==
    /\ \E i \in 1..5 : /\ TopTable[i][5] = At(L.dst_xs, 5)
                       /\ TopTable[i][6] = At(L.dst_ys, 4)
    /\ \E j \in 1..5 : /\ BottomTable[j][5] = At(L.dst_xs, 5)
                       /\ BottomTable[j][6] = At(L.dst_ys, 4)

C7_WrapCoordinates ==
    HasLocals =>
        LET xs == L.dst_xs
            ys == L.dst_ys
            half == L.box_height \div 2
            margin == L.crop_mark_size + L.crop_mark_distance
            Edge(s) ==
                /\ Len(s) = 12
                /\ At(s, 0) = 0
                /\ At(s, 1) = margin
                /\ At(s, 2) - At(s, 1) = L.inside_size
                /\ At(s, 3) - At(s, 2) = L.thickness
                /\ At(s, 9) - At(s, 8) = L.thickness
                /\ At(s, 10) - At(s, 9) = L.inside_size
                /\ At(s, 11) - At(s, 10) = margin
        IN  /\ Edge(xs)
            /\ At(xs, 5) - At(xs, 3) = half
            /\ At(xs, 5) - At(xs, 4) = L.flap_size
            /\ At(xs, 6) - At(xs, 5) = L.box_width
            /\ At(xs, 7) - At(xs, 6) = L.flap_size
            /\ At(xs, 8) - At(xs, 6) = half
            /\ Edge(ys)
            /\ At(ys, 4) - At(ys, 3) = half
            /\ At(ys, 5) - At(ys, 4) = L.flap_size
            /\ At(ys, 7) - At(ys, 4) = L.box_depth
            /\ At(ys, 7) - At(ys, 6) = L.flap_size
            /\ At(ys, 8) - At(ys, 7) = half
            /\ (<<L.box_width, L.box_height, L.box_depth, L.thickness,
                  L.flap_size, L.inside_size, L.crop_mark_size,
                  L.crop_mark_distance>>
                    = <<886, 1228, 1181, 24, 118, 177, 59, 24>>)
                 => xs = <<0, 83, 260, 284, 780, 898, 1784, 1902, 2398,
                           2422, 2599, 2682>>

\* The grids of the default box with the default material were computed.
C7_Witness ==
    /\ HasLocals
    /\ <<L.box_width, L.box_height, L.box_depth, L.thickness, L.flap_size,
         L.inside_size, L.crop_mark_size, L.crop_mark_distance>>
           = <<886, 1228, 1181, 24, 118, 177, 59, 24>>
    /\ At(L.dst_xs, 11) = 2682
    /\ At(L.dst_ys, 7) = 2079

\* C8: template_coordinates returns xs = (0, d, d+w, 2d+w, 2d+2w) and
\* ys = (0, d, d+h//2, d+h, 2d+h); create_template makes its image
\* 2*(w+d) by h+2*d pixels; the default box (886, 1228, 1181) gives
\* xs = (0,1181,2067,3248,4134) and ys = (0,1181,1795,2409,3590).
C8_TemplateCoordinates ==
    /\ src_image.exists =>
          LET w == src_image.box[1]
              h == src_image.box[2]
              d == src_image.box[3]
          IN  /\ src_image.vguides = <<0, d, d + w, 2*d + w, 2*d + 2*w>>
              /\ src_image.hguides =
                    <<0, d, d + h \div 2, d + h, 2*d + h>>
              /\ src_image.width = 2 * (w + d)
              /\ src_image.height = h + 2 * d
              /\ (<<w, h, d>> = <<886, 1228, 1181>>) =>
                    /\ src_image.vguides = <<0, 1181, 2067, 3248, 4134>>
                    /\ src_image.hguides = <<0, 1181, 1795, 2409, 3590>>
    /\ HasLocals =>
          LET w == L.box_width
              h == L.box_height
              d == L.box_depth
          IN  /\ L.src_xs = <<0, d, d + w, 2*d + w, 2*d + 2*w>>
              /\ L.src_ys = <<0, d, d + h \div 2, d + h, 2*d + h>>

\* The template of the default box exists and is 4134 by 3590 pixels.
C8_Witness ==
    /\ src_image.exists
    /\ src_image.box = <<886, 1228, 1181>>
    /\ src_image.width = 4134
    /\ src_image.height = 3590
    /\ src_image.hguides[3] = 1795


(***************************************************************************)
(* Properties of the drawing functions (SpecApi)                           *)
(***************************************************************************)
\* C6: when a placement's corner or a mark's direction is no value of its
\* enumeration, a message is reported and that step contributes nothing to
\* the sheet: nothing is pasted and anchored, no rectangle of the mark is
\* filled.
C6_InvalidStepContributesNothing ==
    (pc = "api" /\ HasLocals /\ ~L.valid) =>
        /\ Len(messages) = L.messages_before + 1
        /\ Len(dst.top.drawn) = L.drawn_before


(***************************************************************************)
(* Crop marks (Spec)                                                       *)
(***************************************************************************)
\* The rectangles the twelve marks of a sheet are to fill, in order: one
\* per listed direction.
C11_ExpectedRects ==
    LET m == MarkDefinitions(L)
        s == L.crop_mark_size
        d == L.crop_mark_distance
        R(dir, x0, y0) ==
            CASE dir = UP -> Rect(x0 - 1, y0 - d - s, 2, s)
              [] dir = DOWN -> Rect(x0 - 1, y0 + d, 2, s)
              [] dir = LEFT -> Rect(x0 - d - s, y0 - 1, s, 2)
              [] dir = RIGHT -> Rect(x0 + d, y0 - 1, s, 2)
        upto[k \in 0..12] ==
            IF k = 0 THEN <<>>
            ELSE upto[k - 1] \o [i \in 1..Len(m[k][1]) |->
                                    R(m[k][1][i], m[k][2], m[k][3])]
    IN  upto

\* C11: draw_mark with valid directions fills one rectangle per listed
\* direction, in list order: UP (x0-1, y0-d-s, 2, s), DOWN (x0-1, y0+d, 2, s),
\* LEFT (x0-d-s, y0-1, s, 2), RIGHT (x0+d, y0-1, s, 2).  A sheet gets twelve
\* marks, eight with two directions and four with one, so twenty filled
\* rectangles, all after the last placement of the sheet.
C11_MarksFillOneRectanglePerDirection ==
    HasLocals =>
        /\ Len(MarkDefinitions(L)) = 12
        /\ Cardinality({k \in 1..12 : Len(MarkDefinitions(L)[k][1]) = 2}) = 8
        /\ Cardinality({k \in 1..12 : Len(MarkDefinitions(L)[k][1]) = 1}) = 4
        /\ Len(C11_ExpectedRects[12]) = 20
        /\ \A s \in {"top", "bottom"} :
              LET dr == dst[s].drawn
              IN  /\ Len(dr) <= 29
                  /\ \A k \in 1..Len(dr) :
                        IF k <= 9
                        THEN dr[k].kind = "anchor"
                        ELSE /\ dr[k].kind = "fill"
                             /\ dr[k].rect = C11_ExpectedRects[12][k - 9]
                  /\ (pc = "draw" /\ sheet = s /\ ip >= 9) =>
                        Len(dr) = 9 + Len(C11_ExpectedRects[ip - 9])
                  /\ dst[s].displayed => Len(dr) = 29

\* Both sheets of the default box carry their twenty mark rectangles; the
\* first is the UP tick at (x4, y1) = (780, 83).
C11_Witness ==
    /\ pc = "returned"
    /\ HasLocals
    /\ dst.bottom.displayed
    /\ Len(dst.top.drawn) = 29
    /\ dst.top.drawn[10].rect = Rect(779, 0, 2, 59)
    /\ dst.top.drawn[11].rect = Rect(697, 82, 59, 2)
    /\ dst.bottom.drawn[29].kind = "fill"


(***************************************************************************)
(* Scoped release (SpecScopes)                                             *)
(***************************************************************************)
Count(log, call) == Cardinality({i \in 1..Len(log) : log[i] = call})

DrawingCalls ==
    {"gimp.Layer", "fill", "add_layer", "add_vguide", "add_hguide",
     "gimp_image_select_rectangle", "gimp_edit_copy_visible",
     "gimp_selection_none", "gimp_edit_paste",
     "gimp_drawable_transform_rotate_simple", "gimp_layer_translate",
     "gimp_floating_sel_anchor", "gimp_edit_fill"}

\* The call at position i of the log is made while undo is disabled on
\* its image.
UndoDisabledAt(log, i) ==
    \E j \in 1..(i - 1) :
        /\ log[j] = Call("disable_undo", log[i][2])
        /\ \A k \in (j + 1)..(i - 1) :
              log[k] # Call("enable_undo", log[i][2])

\* create_template or create_wraps has ended, by return or by exception.
CallEnded == pc \in {"idle", "returned"}

\* The releases that hold on every path: PausedUndo.
UndoReleased ==
    /\ \A s \in {"top", "bottom"} : dst[s].undo
    /\ src_image.undo
    /\ \A image \in {"template", "top", "bottom"} :
          Count(calls, Call("disable_undo", image))
              = Count(calls, Call("enable_undo", image))

\* C12: on every exit path of create_template and create_wraps (return,
\* abort on the size mismatch, exception of a backend call) every
\* disable_undo is followed by enable_undo on the same image and every
\* context_push by a context_pop; drawing on a destination image happens
\* while its undo is disabled; when the call has ended no image has undo
\* disabled and the context stack is as deep as at entry.
C12_ScopesReleasedOnEveryExitPath ==
    /\ \A i \in 1..Len(calls) :
          (calls[i][1] \in DrawingCalls /\ calls[i][2] \in {"top", "bottom"})
              => UndoDisabledAt(calls, i)
    /\ CallEnded =>
          /\ UndoReleased
          /\ Count(calls, Call("context_push", "gimp"))
                = Count(calls, Call("context_pop", "gimp"))

\* What does hold: the undo history is released on every path, and the
\* context is popped on every path on which DefaultContext.__enter__
\* returned.
ScopesReleasedOnceEntered ==
    /\ \A i \in 1..Len(calls) :
          (calls[i][1] \in DrawingCalls /\ calls[i][2] \in {"top", "bottom"})
              => UndoDisabledAt(calls, i)
    /\ CallEnded =>
          /\ UndoReleased
          /\ Count(calls, Call("gimp_context_set_defaults", "gimp"))
                = Count(calls, Call("context_pop", "gimp"))


(***************************************************************************)
(* Where the placements write (Spec)                                       *)
(***************************************************************************)
\* The rectangle [left, right] x [top, bottom] of the sheet.
Span(left, right, top, bottom) == Rect(left, top, right - left, bottom - top)

\* The five parts of the cross [x5,x6] x [y1,y10] union [x1,x10] x [y4,y7].
C13_CrossParts ==
    LET xs == L.dst_xs
        ys == L.dst_ys
    IN  {Span(At(xs, 5), At(xs, 6), At(ys, 4), At(ys, 7)),
         Span(At(xs, 1), At(xs, 5), At(ys, 4), At(ys, 7)),
         Span(At(xs, 6), At(xs, 10), At(ys, 4), At(ys, 7)),
         Span(At(xs, 5), At(xs, 6), At(ys, 1), At(ys, 4)),
         Span(At(xs, 5), At(xs, 6), At(ys, 7), At(ys, 10))}

C13_FlapTargets ==
    LET xs == L.dst_xs
        ys == L.dst_ys
    IN  {Span(At(xs, 4), At(xs, 5), At(ys, 1), At(ys, 4)),
         Span(At(xs, 4), At(xs, 5), At(ys, 7), At(ys, 10)),
         Span(At(xs, 6), At(xs, 7), At(ys, 1), At(ys, 4)),
         Span(At(xs, 6), At(xs, 7), At(ys, 7), At(ys, 10))}

\* C13: on a strictly increasing grid no two placements of a sheet write
\* the same pixel: the five face placements write pairwise disjoint
\* rectangles whose union is the cross [x5,x6] x [y1,y10] union
\* [x1,x10] x [y4,y7]; the four flap placements write [x4,x5] x [y1,y4],
\* [x4,x5] x [y7,y10], [x6,x7] x [y1,y4] and [x6,x7] x [y7,y10], disjoint
\* from each other, from every face rectangle and from every flap source
\* strip.
C13_PlacementsWriteDisjointRectangles ==
    (HasLocals /\ GridsIncreasing) =>
        \A s \in {"top", "bottom"} :
            LET dr == dst[s].drawn
            IN  Len(dr) >= 9 =>
                  /\ \A i, j \in 1..9 :
                        i # j => ~Overlap(dr[i].rect, dr[j].rect)
                  /\ {dr[i].rect : i \in 1..5} = C13_CrossParts
                  /\ {dr[i].rect : i \in 6..9} = C13_FlapTargets
                  /\ \A i, j \in 6..9 : ~Overlap(dr[i].rect, dr[j].src)

\* The same with the selections as large as asked for: every source
\* rectangle of the faces lies inside the template.
C13_SourcesInsideTemplate ==
    \A k \in 1..5 :
        /\ Contains(Rect(0, 0, L.src_image_width, L.src_image_height),
                    SrcRect(TopTable[k]))
        /\ Contains(Rect(0, 0, L.src_image_width, L.src_image_height),
                    SrcRect(BottomTable[k]))

C13_DisjointWhenSourcesInsideTemplate ==
    (HasLocals /\ GridsIncreasing /\ C13_SourcesInsideTemplate) =>
        \A s \in {"top", "bottom"} :
            LET dr == dst[s].drawn
            IN  Len(dr) >= 9 =>
                  /\ \A i, j \in 1..9 :
                        i # j => ~Overlap(dr[i].rect, dr[j].rect)
                  /\ {dr[i].rect : i \in 1..5} = C13_CrossParts
                  /\ {dr[i].rect : i \in 6..9} = C13_FlapTargets
                  /\ \A i, j \in 6..9 : ~Overlap(dr[i].rect, dr[j].src)


(***************************************************************************)
(* Where the placements read (Spec)                                        *)
(***************************************************************************)
\* The rows of the tables that read a side face (LEFT, FRONT, RIGHT, BACK).
SideFaceRows == {TopTable[k] : k \in 2..5} \cup {BottomTable[k] : k \in 1..4}

\* C14: for every parameter set inside the ranges of the dialog, every
\* source rectangle of both placement tables lies inside the template
\* image (src_x >= 0, src_y >= 0, src_x + src_w <= 2*(box_width+box_depth),
\* src_y + src_h <= box_height + 2*box_depth), and the rows read from the
\* four side faces stay within [y1, y3].
C14_SourceRectanglesInsideTheirFaces ==
    (Drawing /\ ParameterSurface(L.args)) =>
        /\ \A k \in 1..5 :
              \A r \in {SrcRect(TopTable[k]), SrcRect(BottomTable[k])} :
                  /\ r.x >= 0
                  /\ r.y >= 0
                  /\ r.x + r.w <= 2 * (L.box_width + L.box_depth)
                  /\ r.y + r.h <= L.box_height + 2 * L.box_depth
        /\ \A d \in SideFaceRows :
              /\ At(L.src_ys, 1) <= d[2]
              /\ d[2] + d[4] <= At(L.src_ys, 3)


(***************************************************************************)
(* When the wrap grid is well formed (Spec)                                *)
(***************************************************************************)
\* Pixel values around the two thresholds, with positive material values:
\* <<box_width, box_height, box_depth, flap_size>>.
C15_SmallBoxes == (1..2) \X (0..5) \X (1..5) \X (0..3)

C15_XsCondition(box_height, flap_size) ==
    0 < flap_size /\ flap_size < box_height \div 2

C15_YsCondition(box_height, box_depth, flap_size) ==
    box_height \div 2 > 0 /\ 0 < 2 * flap_size /\ 2 * flap_size < box_depth

\* C15: with crop_mark_size + crop_mark_distance, inside_size, thickness,
\* box_width and box_depth positive, the xs of wrap_coordinates are strictly
\* increasing if and only if 0 < flap_size < box_height//2, and the ys if
\* and only if box_height//2 > 0 and 0 < 2*flap_size < box_depth; the code
\* never checks this: create_wraps on a matching template draws both sheets
\* and reports nothing, whether the conditions hold or not.
C15_GridWellFormedExactlyWhen ==
    (pc = "returned" /\ HasLocals) =>
        /\ StrictlyIncreasing(L.dst_xs)
              <=> C15_XsCondition(L.box_height, L.flap_size)
        /\ StrictlyIncreasing(L.dst_ys)
              <=> C15_YsCondition(L.box_height, L.box_depth, L.flap_size)
        /\ \A b \in C15_SmallBoxes :
              LET g == wrap_coordinates(b[1], b[2], b[3], 1, 1, b[4], 1, 0)
              IN  /\ StrictlyIncreasing(g[1]) <=> C15_XsCondition(b[2], b[4])
                  /\ StrictlyIncreasing(g[2])
                        <=> C15_YsCondition(b[2], b[3], b[4])
        /\ ~C1_Mismatched =>
              /\ messages = <<>>
              /\ \A s \in {"top", "bottom"} :
                    dst[s].displayed /\ Len(dst[s].drawn) = 29

\* Box 10 x 20 x 20 mm with 10 mm flaps: flap_size = box_height//2 = 118 and
\* 2*flap_size = box_depth = 236, neither sequence is strictly increasing,
\* and both sheets were drawn without a report.
C15_Witness ==
    /\ pc = "returned"
    /\ HasLocals
    /\ L.flap_size = L.box_height \div 2
    /\ 2 * L.flap_size = L.box_depth
    /\ ~StrictlyIncreasing(L.dst_xs)
    /\ ~StrictlyIncreasing(L.dst_ys)
    /\ messages = <<>>
    /\ dst.top.displayed
    /\ dst.bottom.displayed

=============================================================================
